---- MODULE Spec2Model ----
(***************************************************************************)
(* Model of src/server.js: the per-URI MongoClient cache (clientCache,     *)
(* getClientForUri) and the seven POST /mongo/<op> route handlers that     *)
(* call it.  A handler is an async function: it runs synchronously up to   *)
(* its first await (the promise returned by getClientForUri), resumes when *)
(* that promise settles, issues the driver call, and resumes again when    *)
(* the driver call settles.  The JavaScript event loop runs one such       *)
(* segment at a time, so each segment is one atomic action.                *)
(***************************************************************************)
EXTENDS Integers, Sequences, FiniteSets, TLC

(* ---------------------------------------------------------------------- *)
(* Bounds of the model.                                                    *)
(* ---------------------------------------------------------------------- *)

\* server.js:7 sets MAX_CACHED_CLIENTS = 50; the model keeps the same code
\* with a small capacity so that a full cache and evictions are reached.
MAX_CACHED_CLIENTS == 2

\* Number of request handlers that can be in flight at the same time.
NumHandlers == 2

\* Cap on the number of MongoClient objects ever constructed in one run.
MaxClients == 4

Handlers == 1..NumHandlers

(* ---------------------------------------------------------------------- *)
(* JavaScript values, as far as the handlers inspect them.                 *)
(* ---------------------------------------------------------------------- *)

Undefined == [t |-> "undefined", v |-> ""]
Null == [t |-> "null", v |-> ""]
Str(s) == [t |-> "string", v |-> s]
Num(s) == [t |-> "number", v |-> s]
Bool(s) == [t |-> "boolean", v |-> s]
Obj == [t |-> "object", v |-> "{}"]
Arr == [t |-> "array", v |-> "[]"]

\* JavaScript ToBoolean, used by every `!x` test of the handlers.
Truthy(x) ==
    CASE x.t = "undefined" -> FALSE
      [] x.t = "null" -> FALSE
      [] x.t = "string" -> x.v # ""
      [] x.t = "number" -> x.v \notin {"0", "NaN"}
      [] x.t = "boolean" -> x.v = "true"
      [] OTHER -> TRUE

\* String.prototype.startsWith
StartsWith(s, p) == Len(s) >= Len(p) /\ SubSeq(s, 1, Len(p)) = p

\* Array.isArray
IsArray(x) == x.t = "array"

\* err?.code === 11000
DUPLICATE_KEY == Num("11000")

(* ---------------------------------------------------------------------- *)
(* State.                                                                  *)
(* ---------------------------------------------------------------------- *)

VARIABLES
    clientCache,  \* the Map of server.js:6, as the sequence of its entries
                  \* [key, value] in insertion order; value is the identity
                  \* of the stored promise (an index into clients)
    clients,      \* every MongoClient constructed by getClientForUri, in
                  \* construction order: [uri, state, err] where state is
                  \* the state of the promise client.connect().then(...)
    handlers,     \* per request slot: [pc, op, uri, c] - the route and
                  \* mongodbUri of the request being handled, where its
                  \* async handler is suspended, and the promise it awaits
    sent,         \* the response written by the last step, with the slot,
                  \* route and mongodbUri of its request: [h, op, uri,
                  \* status, body]; NoResponse when that step wrote none
    evicted       \* history: the promises whose entries clientCache.delete
                  \* has removed so far

vars == <<clientCache, clients, handlers, sent, evicted>>

(* ---------------------------------------------------------------------- *)
(* The Map operations getClientForUri uses (a Map keeps insertion order).  *)
(* ---------------------------------------------------------------------- *)

\* Map.prototype.has
CacheHas(cache, k) == \E i \in 1..Len(cache) : cache[i].key = k

\* Map.prototype.get
CacheGet(cache, k) == cache[CHOOSE i \in 1..Len(cache) : cache[i].key = k].value

\* Map.prototype.delete
CacheDelete(cache, k) == SelectSeq(cache, LAMBDA e : e.key # k)

\* Map.prototype.set: a new key goes last, an existing key keeps its place
CacheSet(cache, k, val) ==
    IF CacheHas(cache, k)
    THEN [i \in 1..Len(cache) |->
            IF cache[i].key = k THEN [key |-> k, value |-> val] ELSE cache[i]]
    ELSE Append(cache, [key |-> k, value |-> val])

\* Variant: the key inserted last is taken for the oldest.
OldestKeyNewest(cache) == cache[Len(cache)].key

\* clientCache.keys().next().value
OldestKey(cache) == cache[1].key

CacheKeys(cache) == {cache[i].key : i \in 1..Len(cache)}
CacheValues(cache) == {cache[i].value : i \in 1..Len(cache)}

(* ---------------------------------------------------------------------- *)
(* Errors: [code, name, message] as read by the catch blocks.              *)
(* ---------------------------------------------------------------------- *)

\* new Error(message): no code, name "Error"
JsError(msg) == [code |-> Undefined, name |-> Str("Error"), message |-> Str(msg)]

NoError == [code |-> Undefined, name |-> Undefined, message |-> Undefined]

\* Failures of client.connect(): the server cannot be reached.
ConnectErrors ==
    { [code |-> Undefined, name |-> Str("MongoServerSelectionError"),
       message |-> Str("Server selection timed out")] }

\* Failures of a driver operation on an established client.
OperationErrors ==
    { [code |-> DUPLICATE_KEY, name |-> Str("MongoServerError"),
       message |-> Str("E11000 duplicate key error")],
      [code |-> Undefined, name |-> Str("MongoNetworkError"),
       message |-> Str("connection closed")] }

(* ---------------------------------------------------------------------- *)
(* getClientForUri                                                         *)
(* ---------------------------------------------------------------------- *)

\* Variant: the size test is `>` instead of `>=`.
CacheIsFullOffByOne(cache) == Len(cache) > MAX_CACHED_CLIENTS

\* The guard that decides whether the oldest entry is dropped before a set.
CacheIsFull(cache) == Len(cache) >= MAX_CACHED_CLIENTS

\* Variant: a full cache is emptied (clientCache.clear()) instead of
\* losing its oldest entry.
EvictOldestClearsAll(cache) == IF CacheIsFull(cache) THEN <<>> ELSE cache

\* The entries left after the eviction step of a cache miss.
EvictOldest(cache) ==
    IF CacheIsFull(cache) THEN CacheDelete(cache, OldestKey(cache)) ELSE cache

\* Variant: the scheme check is left out; only the first check is made.
UriErrorNoSchemeCheck(mongodbUri) ==
    IF ~Truthy(mongodbUri) \/ mongodbUri.t # "string"
    THEN "Missing mongodbUri"
    ELSE ""

\* The message of the Error thrown by the two checks at the top of
\* getClientForUri, or "" when the argument passes both.
UriError(mongodbUri) ==
    IF ~Truthy(mongodbUri) \/ mongodbUri.t # "string"
    THEN "Missing mongodbUri"
    ELSE IF ~StartsWith(mongodbUri.v, "mongodb+srv://")
            /\ ~StartsWith(mongodbUri.v, "mongodb://")
         THEN "mongodbUri must start with mongodb+srv:// or mongodb://"
         ELSE ""

\* Variant: the `!clientCache.has(mongodbUri)` test is left out.
IsMissAlways(cache, k) == TRUE

\* Whether a call with this (valid) key takes the `!clientCache.has` branch.
IsMiss(cache, k) == ~CacheHas(cache, k)

\* Variant: the eviction also closes the evicted client (client.close()),
\* which ends its connection attempt or its connection.
getClientForUriClosing(cache, cl, mongodbUri) ==
    IF UriError(mongodbUri) # ""
    THEN [threw |-> TRUE, err |-> JsError(UriError(mongodbUri)),
          cache |-> cache, clients |-> cl, value |-> 0, deleted |-> {}]
    ELSE LET k == mongodbUri.v
             gone == IF IsMiss(cache, k)
                     THEN CacheValues(cache) \ CacheValues(EvictOldest(cache))
                     ELSE {}
             closed == [i \in 1..Len(cl) |->
                          IF i \in gone THEN [cl[i] EXCEPT !.state = "closed"]
                          ELSE cl[i]]
             newClients == Append(closed, [uri |-> k, state |-> "pending",
                                           err |-> NoError])
             newCache == CacheSet(EvictOldest(cache), k, Len(cl) + 1)
             cache2 == IF IsMiss(cache, k) THEN newCache ELSE cache
         IN [threw |-> FALSE, err |-> NoError,
             cache |-> cache2,
             clients |-> IF IsMiss(cache, k) THEN newClients ELSE cl,
             value |-> CacheGet(cache2, k),
             deleted |-> gone]

\* One call of getClientForUri on cache `cache` with `cl` the clients
\* constructed so far.  threw: whether it threw; err: the Error thrown;
\* cache, clients: the state it leaves; value: the promise it returns;
\* deleted: the promises whose entries it removed.
getClientForUri(cache, cl, mongodbUri) ==
    IF UriError(mongodbUri) # ""
    THEN [threw |-> TRUE, err |-> JsError(UriError(mongodbUri)),
          cache |-> cache, clients |-> cl, value |-> 0, deleted |-> {}]
    ELSE LET k == mongodbUri.v
             newClients == Append(cl, [uri |-> k, state |-> "pending",
                                       err |-> NoError])
             newCache == CacheSet(EvictOldest(cache), k, Len(cl) + 1)
             cache2 == IF IsMiss(cache, k) THEN newCache ELSE cache
         IN [threw |-> FALSE, err |-> NoError,
             cache |-> cache2,
             clients |-> IF IsMiss(cache, k) THEN newClients ELSE cl,
             value |-> CacheGet(cache2, k),
             deleted |-> IF IsMiss(cache, k)
                         THEN CacheValues(cache) \ CacheValues(EvictOldest(cache))
                         ELSE {}]

(* ---------------------------------------------------------------------- *)
(* Requests: the parsed JSON body (`req.body || {}`), a missing property   *)
(* reading as undefined.                                                   *)
(* ---------------------------------------------------------------------- *)

Ops == {"findOne", "insertOne", "updateOne", "deleteOne", "find",
        "findOneAndUpdate", "insertMany"}

ValidUris == {"mongodb://a", "mongodb://b", "mongodb+srv://c"}

\* Values of mongodbUri that getClientForUri or the handlers turn down.
InvalidUriInputs == {Undefined, Str(""), Num("5"), Str("http://x")}

UriInputs == InvalidUriInputs \cup {Str("mongodb://a")}

NameInputs == {Undefined, Str("test")}
ObjInputs == {Undefined, Obj}
DocumentsInputs == {Undefined, Obj, Arr}

\* The properties of the body, besides mongodbUri, db and collection, that
\* the handler of `op` destructures and tests.
FieldsRead(op) ==
    CASE op = "findOne" -> {"filter"}
      [] op = "insertOne" -> {"document"}
      [] op = "updateOne" -> {"filter", "update"}
      [] op = "deleteOne" -> {"filter"}
      [] op = "find" -> {"filter"}
      [] op = "findOneAndUpdate" -> {"filter", "update"}
      [] op = "insertMany" -> {"documents"}

BodiesFor(op) ==
    [mongodbUri : UriInputs, db : NameInputs, collection : NameInputs,
     filter : IF "filter" \in FieldsRead(op) THEN ObjInputs ELSE {Undefined},
     document : IF "document" \in FieldsRead(op) THEN ObjInputs ELSE {Undefined},
     update : IF "update" \in FieldsRead(op) THEN ObjInputs ELSE {Undefined},
     documents : IF "documents" \in FieldsRead(op) THEN DocumentsInputs
                 ELSE {Undefined}]

\* Variant: the handlers test mongodbUri only and leave the other fields to
\* the driver.
ValidateUriOnly(op, body) ==
    IF ~Truthy(body.mongodbUri)
    THEN IF op = "findOne"
         THEN "Missing mongodbUri, db, collection, or filter"
         ELSE "Missing mongodbUri"
    ELSE ""

\* The error string of the 400 response the handler of `op` sends for
\* `body`, or "" when the body passes the handler's checks.
Validate(op, body) ==
    LET noDb == ~Truthy(body.db) \/ ~Truthy(body.collection)
    IN CASE op = "findOne" ->
              IF ~Truthy(body.mongodbUri) \/ noDb \/ ~Truthy(body.filter)
              THEN "Missing mongodbUri, db, collection, or filter" ELSE ""
         [] ~Truthy(body.mongodbUri) -> "Missing mongodbUri"
         [] op = "insertOne" ->
              IF noDb \/ ~Truthy(body.document)
              THEN "Missing db, collection, or document" ELSE ""
         [] op \in {"updateOne", "findOneAndUpdate"} ->
              IF noDb \/ ~Truthy(body.filter) \/ ~Truthy(body.update)
              THEN "Missing db, collection, filter, or update" ELSE ""
         [] op = "deleteOne" ->
              IF noDb \/ ~Truthy(body.filter)
              THEN "Missing db, collection, or filter" ELSE ""
         [] op = "find" ->
              IF noDb THEN "Missing db or collection" ELSE ""
         [] op = "insertMany" ->
              IF noDb \/ ~IsArray(body.documents)
              THEN "Missing db, collection, or documents[]" ELSE ""

(* ---------------------------------------------------------------------- *)
(* Responses: [status, body], body being the object given to res.json.     *)
(* ---------------------------------------------------------------------- *)

\* res.status(400).json({ error })
BadRequest(msg) == [status |-> 400, body |-> [error |-> Str(msg)]]

\* Variant: the catch block only logs the error and writes no response.
CatchResponseSilent(op, err) == [status |-> 0, body |-> <<>>]

\* Variant: the catch block forgets `.status(...)`, so the error body goes
\* out with the default status 200.
CatchResponseNoStatus(op, err) ==
    [status |-> 200,
     body |-> [error |-> Str("Server error"), message |-> err.message]]

\* The catch block of the handler of `op`, given the error caught.
CatchResponse(op, err) ==
    IF op = "insertMany"
    THEN [status |-> 500,
          body |-> [error |-> Str("Server error"), message |-> err.message]]
    ELSE IF err.code = DUPLICATE_KEY
         THEN [status |-> 409,
               body |-> [error |-> Str("Duplicate key"), code |-> err.code,
                         message |-> err.message]]
         ELSE [status |-> 500,
               body |-> [error |-> Str("Server error"), code |-> err.code,
                         name |-> err.name, message |-> err.message]]

\* x ?? d
Nullish(x, d) == IF x.t \in {"undefined", "null"} THEN d ELSE x

\* What the driver call of `op` can resolve to, as far as the handler reads it.
DriverResults(op) ==
    CASE op = "findOne" -> {[doc |-> Null], [doc |-> Obj]}
      [] op = "insertOne" -> {[insertedId |-> Obj, acknowledged |-> Bool("true")]}
      [] op = "updateOne" ->
           {[acknowledged |-> Bool("true"), matchedCount |-> Num("1"),
             modifiedCount |-> Num("1"), upsertedId |-> u] : u \in {Undefined, Obj}}
      [] op = "deleteOne" -> {[acknowledged |-> Bool("true"), deletedCount |-> Num("1")]}
      [] op = "find" -> {[docs |-> Arr]}
      [] op = "findOneAndUpdate" -> {[value |-> u] : u \in {Undefined, Obj}}
      [] op = "insertMany" ->
           {[acknowledged |-> Bool("true"), insertedCount |-> Num("2"),
             insertedIds |-> Obj]}

\* The res.json(...) of the handler of `op` on the driver result r.
SuccessResponse(op, r) ==
    [status |-> 200,
     body |->
       CASE op = "updateOne" ->
              [r EXCEPT !.upsertedId = Nullish(r.upsertedId, Null)]
         [] op = "findOneAndUpdate" -> [value |-> Nullish(r.value, Null)]
         [] OTHER -> r]

(* ---------------------------------------------------------------------- *)
(* Initial state: an empty Map, no client constructed, no request.         *)
(* ---------------------------------------------------------------------- *)

IdleHandler == [pc |-> "idle", op |-> "", uri |-> Undefined, c |-> 0]

NoResponse == [h |-> 0, op |-> "", uri |-> Undefined, status |-> 0, body |-> <<>>]

Init ==
    /\ clientCache = <<>>
    /\ clients = <<>>
    /\ handlers = [h \in Handlers |-> IdleHandler]
    /\ sent = NoResponse
    /\ evicted = {}

(* ---------------------------------------------------------------------- *)
(* The route handlers.                                                     *)
(* ---------------------------------------------------------------------- *)

\* The handler of slot h, serving route op for mongodbUri uri, writes
\* `response` and returns; the slot is free for the next request.
Respond(h, op, uri, response) ==
    /\ handlers' = [handlers EXCEPT ![h] = IdleHandler]
    /\ sent' = [h |-> h, op |-> op, uri |-> uri,
                status |-> response.status, body |-> response.body]

\* app.post("/mongo/<op>") up to its first suspension: the checks of the
\* body, then the call of getClientForUri, whose promise it awaits.
Request(h, op, body) ==
    /\ handlers[h].pc = "idle"
    /\ LET r == getClientForUri(clientCache, clients, body.mongodbUri)
       IN IF Validate(op, body) # ""
          THEN /\ Respond(h, op, body.mongodbUri, BadRequest(Validate(op, body)))
               /\ UNCHANGED <<clientCache, clients, evicted>>
          ELSE IF r.threw
               THEN /\ Respond(h, op, body.mongodbUri, CatchResponse(op, r.err))
                    /\ UNCHANGED <<clientCache, clients, evicted>>
               ELSE /\ Len(r.clients) <= MaxClients
                    /\ clientCache' = r.cache
                    /\ clients' = r.clients
                    /\ evicted' = evicted \cup r.deleted
                    /\ handlers' = [handlers EXCEPT
                                      ![h] = [pc |-> "awaitConnect", op |-> op,
                                              uri |-> body.mongodbUri, c |-> r.value]]
                    /\ sent' = NoResponse

\* client.connect() of the c-th client succeeds: its promise is fulfilled.
ConnectResolve(c) ==
    /\ c \in 1..Len(clients)
    /\ clients[c].state = "pending"
    /\ clients' = [clients EXCEPT ![c].state = "fulfilled"]
    /\ sent' = NoResponse
    /\ UNCHANGED <<clientCache, handlers, evicted>>

\* Variant: a failed attempt removes its own entry from the cache
\* (a .catch on the stored promise that calls clientCache.delete).
ConnectRejectRemoves(c, err) ==
    /\ c \in 1..Len(clients)
    /\ clients[c].state = "pending"
    /\ clients' = [clients EXCEPT ![c].state = "rejected", ![c].err = err]
    /\ clientCache' = SelectSeq(clientCache, LAMBDA e : e.value # c)
    /\ sent' = NoResponse
    /\ UNCHANGED <<handlers, evicted>>

\* client.connect() of the c-th client fails: its promise is rejected.
ConnectReject(c, err) ==
    /\ c \in 1..Len(clients)
    /\ clients[c].state = "pending"
    /\ clients' = [clients EXCEPT ![c].state = "rejected", ![c].err = err]
    /\ sent' = NoResponse
    /\ UNCHANGED <<clientCache, handlers, evicted>>

\* The handler resumes from `await getClientForUri(...)`: on a fulfilled
\* promise it issues the driver call and awaits it, on a rejected one the
\* rejection is thrown into its catch block.
ResumeConnect(h) ==
    /\ handlers[h].pc = "awaitConnect"
    /\ clients[handlers[h].c].state # "pending"
    /\ IF clients[handlers[h].c].state = "fulfilled"
       THEN /\ handlers' = [handlers EXCEPT ![h].pc = "awaitOperation"]
            /\ sent' = NoResponse
       ELSE Respond(h, handlers[h].op, handlers[h].uri,
                    CatchResponse(handlers[h].op, clients[handlers[h].c].err))
    /\ UNCHANGED <<clientCache, clients, evicted>>

\* The driver call resolves with r and the handler sends the result.
OperationResolve(h, r) ==
    /\ handlers[h].pc = "awaitOperation"
    /\ r \in DriverResults(handlers[h].op)
    /\ Respond(h, handlers[h].op, handlers[h].uri,
               SuccessResponse(handlers[h].op, r))
    /\ UNCHANGED <<clientCache, clients, evicted>>

\* The driver call fails with err, which the catch block handles.
OperationReject(h, err) ==
    /\ handlers[h].pc = "awaitOperation"
    /\ Respond(h, handlers[h].op, handlers[h].uri,
               CatchResponse(handlers[h].op, err))
    /\ UNCHANGED <<clientCache, clients, evicted>>

AllDriverResults == UNION {DriverResults(op) : op \in Ops}

\* The promise settlements and handler resumptions the event loop can run.
Settle(hs) ==
    \/ \E c \in 1..MaxClients : ConnectResolve(c)
    \/ \E c \in 1..MaxClients, err \in ConnectErrors : ConnectReject(c, err)
    \/ \E h \in hs : ResumeConnect(h)
    \/ \E h \in hs, r \in AllDriverResults : OperationResolve(h, r)
    \/ \E h \in hs, err \in OperationErrors : OperationReject(h, err)

(* ---------------------------------------------------------------------- *)
(* Spec: requests overlap.  Every route reaches the cache through the same *)
(* `await getClientForUri(mongodbUri)`; the overlapping requests are drawn *)
(* from the two routes whose catch blocks differ, with a complete body for *)
(* any mongodbUri or with one property missing.                            *)
(* ---------------------------------------------------------------------- *)

ConcurrentOps == {"findOne", "insertMany"}

CompleteBody(uri) ==
    [mongodbUri |-> uri, db |-> Str("test"), collection |-> Str("test"),
     filter |-> Obj, document |-> Obj, update |-> Obj, documents |-> Arr]

ConcurrentBodies ==
    {CompleteBody(Str(u)) : u \in ValidUris}
      \cup {CompleteBody(Str("http://x")),
            [CompleteBody(Str("mongodb://a")) EXCEPT !.db = Undefined]}

Next ==
    \/ \E h \in Handlers, op \in ConcurrentOps, body \in ConcurrentBodies :
          Request(h, op, body)
    \/ Settle(Handlers)

Spec == Init /\ [][Next]_vars

\* The event loop runs every continuation that is ready, and the driver
\* settles every connection attempt (server selection times out) and every
\* operation it was given.
Fairness ==
    /\ \A c \in 1..MaxClients :
          WF_vars(ConnectResolve(c) \/ \E err \in ConnectErrors : ConnectReject(c, err))
    /\ \A h \in Handlers : WF_vars(ResumeConnect(h))
    /\ \A h \in Handlers :
          WF_vars(\/ \E r \in AllDriverResults : OperationResolve(h, r)
                  \/ \E err \in OperationErrors : OperationReject(h, err))

FairSpec == Spec /\ Fairness

(* ---------------------------------------------------------------------- *)
(* RouteSpec: one request at a time, on every route, with every            *)
(* combination of present and missing properties of the body.              *)
(* ---------------------------------------------------------------------- *)

RouteNext ==
    \/ \E op \in Ops : \E body \in BodiesFor(op) : Request(1, op, body)
    \/ Settle({1})

RouteSpec == Init /\ [][RouteNext]_vars

FairRouteSpec == RouteSpec /\ Fairness

(* ---------------------------------------------------------------------- *)
(* Properties.                                                             *)
(* ---------------------------------------------------------------------- *)

\* Slot h runs the first segment of a handler and suspends on the promise
\* returned by getClientForUri: one successful acquire.
Acquires(h) == handlers[h].pc = "idle" /\ handlers'[h].pc = "awaitConnect"

\* The key of the acquire made by slot h in this step.
AcquiredKey(h) == handlers'[h].uri.v

\* Slot h is suspended in a handler that obtained promise c.
Holds(h, c) == handlers[h].pc \in {"awaitConnect", "awaitOperation"} /\ handlers[h].c = c

\* C1: in every reachable state clientCache holds at most MAX_CACHED_CLIENTS
\* entries and no key appears in two entries.
C1_CacheBounded ==
    /\ Len(clientCache) <= MAX_CACHED_CLIENTS
    /\ \A i, j \in 1..Len(clientCache) :
          clientCache[i].key = clientCache[j].key => i = j

\* C1 witness: the cache is full after an eviction made room for a new key.
C1_Witness == Len(clientCache) = MAX_CACHED_CLIENTS /\ evicted # {}

\* C2: an acquire of a key that has an entry returns the promise stored in
\* that entry, constructs no client and leaves the cache as it is; and after
\* any acquire the promise returned is the one stored under the key, so that
\* two acquires of k in a row return the same promise.
C2_HitReturnsEntry ==
    [][\A h \in Handlers :
          Acquires(h) =>
            /\ handlers'[h].c = CacheGet(clientCache', AcquiredKey(h))
            /\ CacheHas(clientCache, AcquiredKey(h)) =>
                  /\ handlers'[h].c = CacheGet(clientCache, AcquiredKey(h))
                  /\ clients' = clients
                  /\ clientCache' = clientCache]_vars

\* C2 witness: two suspended handlers hold the same promise, so one of them
\* acquired the key while its entry was already there.
C2_Witness ==
    \E h1, h2 \in Handlers :
       h1 # h2 /\ handlers[h1].c # 0 /\ Holds(h1, handlers[h1].c)
               /\ Holds(h2, handlers[h1].c)

\* Slot h is suspended on `await getClientForUri(...)` and was given promise c.
AwaitsConnect(h, c) == handlers[h].pc = "awaitConnect" /\ handlers[h].c = c

\* C3 (as claimed): two handlers suspended on acquires of the same key, both
\* made before the first connection attempt completed, wait on one and the
\* same attempt.
C3_OneAttemptAlways ==
    \A h1, h2 \in Handlers :
       ( /\ handlers[h1].pc = "awaitConnect" /\ handlers[h2].pc = "awaitConnect"
         /\ handlers[h1].uri = handlers[h2].uri
         /\ clients[handlers[h1].c].state = "pending"
         /\ clients[handlers[h2].c].state = "pending" )
       => handlers[h1].c = handlers[h2].c

\* C3 (amended): two such handlers wait on the same attempt unless the
\* key's pending entry was evicted between their calls; a handler suspended
\* on an attempt stays suspended until that attempt settles, and then
\* receives its result: it goes on to the driver call when the attempt
\* succeeded and is thrown the attempt's error when it failed.
C3_OneAttemptUnlessEvicted ==
    /\ [](\A h1, h2 \in Handlers :
            ( /\ handlers[h1].pc = "awaitConnect" /\ handlers[h2].pc = "awaitConnect"
              /\ handlers[h1].uri = handlers[h2].uri
              /\ clients[handlers[h1].c].state = "pending"
              /\ clients[handlers[h2].c].state = "pending"
              /\ handlers[h1].c < handlers[h2].c )
            => handlers[h1].c \in evicted)
    /\ [][\A h \in Handlers :
            (handlers[h].pc = "awaitConnect" /\ handlers'[h] # handlers[h]) =>
              /\ clients[handlers[h].c].state # "pending"
              /\ clients[handlers[h].c].state = "fulfilled" =>
                    handlers'[h] = [handlers[h] EXCEPT !.pc = "awaitOperation"]
              /\ clients[handlers[h].c].state = "rejected" =>
                    /\ handlers'[h].pc = "idle"
                    /\ sent'.h = h
                    /\ sent'.body.message = clients[handlers[h].c].err.message]_vars

\* C3 witness: two handlers are suspended on the same pending attempt.
C3_Witness ==
    \E h1, h2 \in Handlers :
       /\ h1 # h2
       /\ handlers[h1].pc = "awaitConnect"
       /\ AwaitsConnect(h2, handlers[h1].c)
       /\ clients[handlers[h1].c].state = "pending"

\* C4 (as claimed): a failed connection attempt leaves no entry in the
\* cache: no entry of clientCache holds a rejected promise.
C4_FailedEntryRemoved ==
    \A i \in 1..Len(clientCache) : clients[clientCache[i].value].state # "rejected"

\* C5: a step that constructs no client leaves the entries and their order
\* as they are, however many acquires hit them; a step that constructs one
\* appends its entry and, when the cache held MAX_CACHED_CLIENTS or more
\* entries, removes exactly the first (oldest inserted) entry.
C5_FifoEviction ==
    [][LET n == Len(clients')
           new == [key |-> clients'[n].uri, value |-> n]
       IN IF n = Len(clients)
          THEN clientCache' = clientCache /\ evicted' = evicted
          ELSE IF Len(clientCache) >= MAX_CACHED_CLIENTS
               THEN /\ clientCache' = Append(Tail(clientCache), new)
                    /\ evicted' = evicted \cup {Head(clientCache).value}
               ELSE /\ clientCache' = Append(clientCache, new)
                    /\ evicted' = evicted]_vars

\* C5 witness: the cache is full, an eviction happened, and the evicted
\* promise is one a handler had acquired and still holds.
C5_Witness ==
    /\ Len(clientCache) = MAX_CACHED_CLIENTS
    /\ \E h \in Handlers : handlers[h].c \in evicted

\* The keys of the clients constructed so far are pairwise distinct: every
\* acquire so far was of a key not acquired before.
NoRepeats ==
    \A i, j \in 1..Len(clients) : clients[i].uri = clients[j].uri => i = j

\* The smaller of two numbers.
Min(a, b) == IF a < b THEN a ELSE b

\* C6: after acquires of N distinct keys, none repeated, the cache holds at
\* most MAX_CACHED_CLIENTS entries, and they are the most recently inserted
\* min(N, MAX_CACHED_CLIENTS) keys, in insertion order.
C6_MostRecentKeys ==
    NoRepeats =>
       LET n == Len(clients)
           m == Min(n, MAX_CACHED_CLIENTS)
       IN /\ Len(clientCache) = m
          /\ \A i \in 1..m :
                clientCache[i] = [key |-> clients[n - m + i].uri, value |-> n - m + i]

\* C6 witness: more distinct keys than the capacity have been acquired.
C6_Witness == NoRepeats /\ Len(clients) > MAX_CACHED_CLIENTS

\* C7 (as claimed): no key has two connection attempts in flight.
C7_OneInFlightPerKey ==
    \A c1, c2 \in 1..Len(clients) :
       ( /\ clients[c1].state = "pending" /\ clients[c2].state = "pending"
         /\ clients[c1].uri = clients[c2].uri )
       => c1 = c2

\* C7 (amended): a key has two connection attempts in flight only when the
\* entry of the earlier one was evicted; among the entries in the cache no
\* key has more than one attempt in flight.
C7_OneInFlightUnlessEvicted ==
    \A c1, c2 \in 1..Len(clients) :
       ( /\ clients[c1].state = "pending" /\ clients[c2].state = "pending"
         /\ clients[c1].uri = clients[c2].uri
         /\ c1 < c2 )
       => c1 \in evicted /\ c1 \notin CacheValues(clientCache)

\* C7 witness: a key with two attempts in flight, the earlier one evicted.
C7_Witness ==
    \E c1, c2 \in 1..Len(clients) :
       /\ c1 < c2
       /\ clients[c1].state = "pending" /\ clients[c2].state = "pending"
       /\ clients[c1].uri = clients[c2].uri

\* Slots h1 and h2 hold the distinct promises c1 and c2 of one key.
Coexist(h1, c1, h2, c2) ==
    /\ c1 # c2
    /\ Holds(h1, c1) /\ Holds(h2, c2)
    /\ handlers[h1].uri = handlers[h2].uri

\* C8: two handlers hold distinct connections of one key only when the
\* entry of the earlier connection was evicted (and the key acquired again,
\* which constructed the later one); and whenever two handlers hold
\* distinct connections of one key, that eventually ends.
C8_ConsistentView ==
    /\ [](\A h1, h2 \in Handlers :
            (Coexist(h1, handlers[h1].c, h2, handlers[h2].c)
               /\ handlers[h1].c < handlers[h2].c)
            => handlers[h1].c \in evicted)
    /\ \A h1, h2 \in Handlers :
          Coexist(h1, handlers[h1].c, h2, handlers[h2].c)
             ~> ~Coexist(h1, handlers[h1].c, h2, handlers[h2].c)

\* C8 witness: two handlers hold distinct connections of one key.
C8_Witness ==
    \E h1, h2 \in Handlers : Coexist(h1, handlers[h1].c, h2, handlers[h2].c)

\* C9: a handler goes on to the driver call only with an established
\* connection; a handler suspended on a connection attempt that has failed
\* can only resume into its catch block, and the response it then writes
\* has status 500 and carries the message of the connection error.
C9_FailurePropagates ==
    /\ [](\A h \in Handlers :
            handlers[h].pc = "awaitOperation" =>
               clients[handlers[h].c].state = "fulfilled")
    /\ [][\A h \in Handlers :
            ( /\ handlers[h].pc = "awaitConnect"
              /\ clients[handlers[h].c].state = "rejected"
              /\ handlers'[h] # handlers[h] )
            => /\ sent'.h = h
               /\ sent'.op = handlers[h].op
               /\ sent'.uri = handlers[h].uri
               /\ sent'.status = 500
               /\ sent'.body.error = Str("Server error")
               /\ sent'.body.message = clients[handlers[h].c].err.message]_vars

\* C9 witness: one request was just answered 500 with the message of a
\* connection error while another handler still waits on a failed attempt
\* for the same key.
C9_Witness ==
    /\ sent.status = 500
    /\ sent.body.message \in {e.message : e \in ConnectErrors}
    /\ \E h \in Handlers :
          /\ h # sent.h
          /\ handlers[h].pc = "awaitConnect"
          /\ handlers[h].uri = sent.uri
          /\ clients[handlers[h].c].state = "rejected"

\* C10 (as claimed): every response to a request whose mongodbUri is not a
\* valid connection string (missing, empty, not a string, or without an
\* accepted scheme) has status 400.
C10_InvalidUriIs400 ==
    (sent.h # 0 /\ UriError(sent.uri) # "") => sent.status = 400

\* C11 (as claimed): on every route, when the driver operation fails with
\* the duplicate-key code 11000 the response has status 409.
C11_DuplicateKeyIs409 ==
    [][\A h \in Handlers : \A err \in OperationErrors :
          (err.code = DUPLICATE_KEY /\ OperationReject(h, err))
             => sent'.status = 409]_vars

\* The driver call of the request in slot h fails with err in this step:
\* its connection attempt was rejected with err and the handler resumes, or
\* its operation is rejected with err.
BackendFails(h, err) ==
    \/ /\ handlers[h].pc = "awaitConnect"
       /\ clients[handlers[h].c].state = "rejected"
       /\ clients[handlers[h].c].err = err
       /\ ResumeConnect(h)
    \/ OperationReject(h, err)

\* C12 (as claimed): on every route, when the backend call fails with an
\* error other than duplicate key the response has status 500 and its body
\* has the four properties error, code, name and message.
C12_OtherErrorIs500 ==
    [][\A h \in Handlers : \A err \in ConnectErrors \cup OperationErrors :
          (err.code # DUPLICATE_KEY /\ BackendFails(h, err))
             => /\ sent'.status = 500
                /\ DOMAIN sent'.body = {"error", "code", "name", "message"}]_vars

\* The statuses the routes answer with.
Statuses == {200, 400, 409, 500}

\* C13: every response written has a status among 200, 400, 409 and 500;
\* a handler returns only by writing the response of its request, and
\* returns when it has written it (one response per request); and, the
\* driver settling every connection attempt and operation, every request
\* being handled is eventually answered.
C13_EveryRequestAnswered ==
    /\ [](sent.h # 0 => sent.status \in Statuses)
    /\ [][\A h \in Handlers :
            /\ (handlers[h].pc # "idle" /\ handlers'[h].pc = "idle") => sent'.h = h
            /\ sent'.h = h => handlers'[h].pc = "idle"]_vars
    /\ \A h \in Handlers :
          handlers[h].pc # "idle" ~> (sent.h = h /\ sent.status \in Statuses)

\* C13 witness: a request that had to wait for the backend was answered
\* from the catch block.
C13_Witness ==
    /\ sent.h # 0
    /\ sent.status = 500
    /\ sent.body.message \in {e.message : e \in ConnectErrors \cup OperationErrors}

\* C14: an acquire of a valid key that has no entry constructs exactly one
\* client, pending, for that key and returns its promise; the entry of the
\* new promise goes last; when the cache held MAX_CACHED_CLIENTS or more
\* entries the first entry, and nothing else, is removed; all other entries
\* keep their values and their order.  The promise is a fresh one: it is
\* none of those evicted or stored before, also when the key had an entry
\* that was evicted.
C14_MissFrame ==
    [][\A h \in Handlers :
          (Acquires(h) /\ ~CacheHas(clientCache, AcquiredKey(h))) =>
             LET n == Len(clients) + 1
                 kept == IF Len(clientCache) >= MAX_CACHED_CLIENTS
                         THEN SubSeq(clientCache, 2, Len(clientCache))
                         ELSE clientCache
             IN /\ clients' = clients \o
                       << [uri |-> AcquiredKey(h), state |-> "pending", err |-> NoError] >>
                /\ handlers'[h].c = n
                /\ clientCache' = kept \o << [key |-> AcquiredKey(h), value |-> n] >>
                /\ n \notin evicted' \cup CacheValues(clientCache)]_vars

\* C14 witness: a key whose entry was evicted has been acquired again and
\* has a new entry with a later promise.
C14_Witness ==
    \E c1, c2 \in 1..Len(clients) :
       /\ c1 < c2
       /\ clients[c1].uri = clients[c2].uri
       /\ c1 \in evicted
       /\ c2 \in CacheValues(clientCache)

\* C15: in every reachable state a call of getClientForUri with an invalid
\* key (undefined, empty, not a string, or without an accepted scheme)
\* throws and leaves the cache and the clients as they are; and the
\* response to a request with such a key is written in the very step that
\* takes the request (its handler was not suspended), with no entry added,
\* removed or moved and no client constructed.
C15_InvalidKeyFrame ==
    /\ [](\A u \in InvalidUriInputs :
            LET r == getClientForUri(clientCache, clients, u)
            IN /\ r.threw
               /\ r.cache = clientCache
               /\ r.clients = clients
               /\ r.deleted = {})
    /\ [][\A h \in Handlers :
            (sent'.h = h /\ UriError(sent'.uri) # "") =>
               /\ handlers[h].pc = "idle"
               /\ handlers'[h].pc = "idle"
               /\ sent'.status \in {400, 500}
               /\ UNCHANGED <<clientCache, clients, evicted>>]_vars

\* C15 witness: getClientForUri has just thrown on a key without an accepted
\* scheme while the cache was full.
C15_Witness ==
    /\ sent.h # 0
    /\ sent.uri = Str("http://x")
    /\ sent.body.message = JsError(UriError(sent.uri)).message
    /\ Len(clientCache) = MAX_CACHED_CLIENTS

\* C16: in every step, each entry of the cache either is still there with
\* the same promise, or has been removed by the eviction of an acquire of
\* another key that had no entry, made while the cache held
\* MAX_CACHED_CLIENTS or more entries and the entry was the first.  Hits,
\* settlements of connection attempts and responses remove nothing.
C16_EntryImmutable ==
    [][\A i \in 1..Len(clientCache) :
          LET e == clientCache[i]
          IN IF CacheHas(clientCache', e.key)
             THEN CacheGet(clientCache', e.key) = e.value
             ELSE /\ i = 1
                  /\ Len(clientCache) >= MAX_CACHED_CLIENTS
                  /\ e.value \in evicted'
                  /\ \E h \in Handlers :
                        /\ Acquires(h)
                        /\ AcquiredKey(h) # e.key
                        /\ ~CacheHas(clientCache, AcquiredKey(h))]_vars

\* C16 witness: after an eviction, the cache holds an entry whose connection
\* is established and which a handler obtained.
C16_Witness ==
    /\ evicted # {}
    /\ \E i \in 1..Len(clientCache) :
          /\ clients[clientCache[i].value].state = "fulfilled"
          /\ \E h \in Handlers : Holds(h, clientCache[i].value)

\* C17: the step that evicts the entry of a promise changes neither the
\* state of that promise's client nor any handler that holds the promise;
\* and a handler that holds an evicted promise goes on as any other: it
\* resumes only once the attempt has settled, issues the driver call on that
\* same client when the attempt succeeded, and is then answered.
C17_EvictionKeepsConnection ==
    [][\A h \in Handlers :
          LET c == handlers[h].c
          IN /\ (c # 0 /\ c \in evicted' \ evicted) =>
                   (handlers'[h] = handlers[h] /\ clients'[c] = clients[c])
             /\ (c # 0 /\ c \in evicted /\ handlers'[h] # handlers[h]) =>
                   /\ clients'[c] = clients[c]
                   /\ clients[c].state \in {"fulfilled", "rejected"}
                   /\ IF handlers[h].pc = "awaitConnect"
                         /\ clients[c].state = "fulfilled"
                      THEN handlers'[h] = [handlers[h] EXCEPT !.pc = "awaitOperation"]
                      ELSE sent'.h = h /\ handlers'[h].pc = "idle"]_vars

\* C17 witness: a handler has issued its driver call on a client whose entry
\* was evicted while the handler held its promise.
C17_Witness ==
    \E h \in Handlers :
       /\ handlers[h].pc = "awaitOperation"
       /\ handlers[h].c \in evicted
       /\ clients[handlers[h].c].state = "fulfilled"

\* The fields a request of `op` has to carry: the three common ones, and the
\* fields of the operation, except the filter of find, which defaults to {}.
RequiredFields(op) ==
    {"mongodbUri", "db", "collection"}
       \cup (IF op = "find" THEN {} ELSE FieldsRead(op))

\* The body carries no value for a required field (no array, for documents).
LacksRequired(op, body) ==
    \E f \in RequiredFields(op) :
       IF f = "documents" THEN ~IsArray(body[f]) ELSE body[f] = Undefined

\* What every step has in which the idle slot h receives a request of route
\* op for u: the slot answers it, or awaits the connection for it.
Receives(h, op, u) ==
    /\ handlers[h].pc = "idle"
    /\ \/ sent'.h = h /\ sent'.op = op /\ sent'.uri = u
       \/ /\ handlers'[h].pc = "awaitConnect"
          /\ handlers'[h].op = op
          /\ handlers'[h].uri = u

\* C18: a request of any route whose body lacks a required field is answered
\* 400 in the step that receives it, and that step leaves the cache (contents
\* and order), the clients (no connection attempt) and the handlers (no
\* driver call awaited) as they were.
C18_MissingFieldIs400 ==
    [][\A h \in Handlers : \A op \in Ops : \A u \in UriInputs :
          Receives(h, op, u) =>
             \A body \in BodiesFor(op) :
                (body.mongodbUri = u /\ LacksRequired(op, body)
                    /\ Request(h, op, body)) =>
                   /\ sent'.h = h
                   /\ sent'.status = 400
                   /\ UNCHANGED <<clientCache, clients, evicted, handlers>>]_vars

\* C18 witness: a 400 for a missing operation field has been sent while the
\* cache holds an entry.
C18_Witness ==
    /\ sent.h # 0
    /\ sent.status = 400
    /\ sent.body.error = Str("Missing db, collection, or documents[]")
    /\ Len(clientCache) > 0

\* C19: the step in which a cached attempt fails leaves the cache as it is;
\* and an entry whose attempt has failed behaves as any other entry: it
\* stays under its key, moving up one place exactly when a miss on a full
\* cache evicts the oldest entry, and leaves only as that oldest entry; an
\* acquire of its key returns the failed promise, constructs no client and
\* leaves the cache alone; and an acquire starts a new attempt for a key
\* only when every failed attempt of that key has had its entry evicted.
C19_FailedEntryStays ==
    [][/\ \A i \in 1..Len(clientCache) :
             LET e == clientCache[i]
                 c == e.value
             IN clients'[c].state = "rejected" =>
                   /\ clients[c].state = "pending" => clientCache' = clientCache
                   /\ \/ /\ i <= Len(clientCache')
                         /\ clientCache'[i] = e
                         /\ Len(clientCache') >= Len(clientCache)
                      \/ /\ i > 1
                         /\ clientCache'[i - 1] = e
                         /\ Len(clientCache) = MAX_CACHED_CLIENTS
                         /\ Len(clientCache') = MAX_CACHED_CLIENTS
                      \/ /\ i = 1
                         /\ ~CacheHas(clientCache', e.key)
                         /\ Len(clientCache) = MAX_CACHED_CLIENTS
                         /\ c \in evicted'
                         /\ \E h \in Handlers :
                               Acquires(h) /\ AcquiredKey(h) # e.key
                   /\ \A h \in Handlers :
                         (Acquires(h) /\ AcquiredKey(h) = e.key) =>
                            /\ handlers'[h].c = c
                            /\ clients' = clients
                            /\ clientCache' = clientCache
       /\ \A h \in Handlers : \A c \in 1..Len(clients) :
             ( /\ Acquires(h)
               /\ Len(clients') > Len(clients)
               /\ clients[c].uri = AcquiredKey(h)
               /\ clients[c].state = "rejected" ) => c \in evicted]_vars

\* C19 witness: the cache is full, its oldest entry is a failed attempt that
\* a handler has acquired and is about to be thrown, and a newer entry
\* stands behind it.
C19_Witness ==
    /\ Len(clientCache) = MAX_CACHED_CLIENTS
    /\ clients[clientCache[1].value].state = "rejected"
    /\ \E h \in Handlers : AwaitsConnect(h, clientCache[1].value)
    /\ clientCache[2].value > clientCache[1].value

\* The clients whose connection is established.
Established == {c \in 1..Len(clients) : clients[c].state = "fulfilled"}

\* C20: no step ends an established connection or closes a client: a step
\* keeps every established connection and adds at most one, that of an
\* attempt which was pending and succeeds; the cache meanwhile holds at most
\* MAX_CACHED_CLIENTS entries.
C20_ConnectionsOnlyGrow ==
    /\ [](Len(clientCache) <= MAX_CACHED_CLIENTS)
    /\ [][/\ Established \subseteq Established'
          /\ Cardinality(Established' \ Established) <= 1
          /\ \A c \in Established' \ Established :
                c \in 1..Len(clients) /\ clients[c].state = "pending"
          /\ \A c \in 1..Len(clients) :
                /\ clients'[c].uri = clients[c].uri
                /\ clients'[c].state \in {"pending", "fulfilled", "rejected"}
                /\ clients[c].state # "pending" => clients'[c] = clients[c]]_vars

\* C20 witness: more connections are established than the cache can hold.
C20_Witness ==
    /\ Cardinality(Established) > MAX_CACHED_CLIENTS
    /\ Len(clientCache) <= MAX_CACHED_CLIENTS
    /\ Established \ CacheValues(clientCache) \subseteq evicted

====
